---- MODULE Spec2Model ----
(***************************************************************************)
(* Newsletter generator and PDF overlay editor.                            *)
(*                                                                         *)
(*   src/pdf_editor_backend.py          class PDFEditor                    *)
(*   src/html_newsletter_generator_v2.py class HTMLNewsletterGenerator     *)
(*                                                                         *)
(* Three state machines share this module, each with its own variables and *)
(* its own specification:                                                  *)
(*   SpecPdf    an opened PDFEditor and the calls made on it               *)
(*   SpecClean  _clean_repetitive_text applied to a text, then to its own  *)
(*              output                                                     *)
(*   SpecGen    generate_html_newsletter: load, generate_html, write       *)
(***************************************************************************)
EXTENDS Integers, Sequences, FiniteSets, TLC

VARIABLES
    \* ---- PDFEditor (src/pdf_editor_backend.py) ----
    num_pages,   \* self.num_pages
    writer,      \* self.writer: the pages added so far, in order
    edited,      \* the reader pages whose page object was changed in place
    files,       \* the file system: path -> the file there, or NoFile
    last,        \* the most recent call on the editor and its outcome
    calls,       \* how many calls were made on the editor
    \* ---- _clean_repetitive_text (src/html_newsletter_generator_v2.py) ----
    cl_pc,       \* "idle", "input", "cleaned" or "recleaned"
    cl_text,     \* the text handed to the cleaner
    cl_out,      \* what the cleaner returned for cl_text
    cl_again,    \* what the cleaner returned for cl_out
    \* ---- generate_html_newsletter (src/html_newsletter_generator_v2.py) ----
    gen_pc,      \* "idle", "start", "loaded", "rendered", "done" or "failed"
    workbook,    \* the spreadsheet at excel_path
    env,         \* the files around the run: images, the earlier output
    data,        \* self.data
    images,      \* what _convert_images_to_base64 returned
    sections,    \* what _group_events_by_section returned
    html,        \* html_content, the rendered document
    out_file,    \* generated/<session_id>/newsletter.html
    error,       \* the exception the call raised, if any
    \* ---- _encode_image on one file, with Pillow ----
    im_pc,       \* "idle", "opened" (Image.open returned), "encoded"
    im_size,     \* im.size of the file: (w, h)
    im_out       \* the image that was saved and encoded, or NoImage

pdfVars == <<num_pages, writer, edited, files, last, calls>>

cleanVars == <<cl_pc, cl_text, cl_out, cl_again>>

genVars == <<gen_pc, workbook, env, data, images, sections, html, out_file, error>>

imVars == <<im_pc, im_size, im_out>>

vars == <<pdfVars, cleanVars, genVars, imVars>>

(***************************************************************************)
(* Bounds                                                                  *)
(***************************************************************************)
MaxPages == 3
MaxOps == 3
MaxPieces == 5
MaxEvents == 3
MaxImages == 2
MaxRows == 3
MaxSide == 4

(***************************************************************************)
(* PDFEditor                                                               *)
(***************************************************************************)
\* A file either does not exist or holds a sequence of pages.
NoFile == [exists |-> FALSE, pages |-> <<>>]

FileOf(pages) == [exists |-> TRUE, pages |-> pages]

\* A page is named by the document it was read from and its 0-based index.
Page(d, i) == [doc |-> d, idx |-> i]

OldFile == FileOf(<<Page("old", 0)>>)

OutPaths == {"out.pdf", "locked.pdf"}
\* open(output_path, 'wb') raises for a destination that cannot be written.
Unwritable == {"locked.pdf"}

\* Documents handed to merge_pdfs: a readable one of two pages, and one that
\* PdfReader cannot read.
MergeDocs == {"extra.pdf", "bad.pdf"}
DocPages(d) == IF d = "extra.pdf" THEN 2 ELSE 0
Readable(d) == d # "bad.pdf"

\* The page numbers a caller passes: every valid index, the two nearest
\* invalid ones on each side, and -1.
PageNums == {0 - num_pages - 1, -1} \cup (0 .. num_pages)
Angles == {90, 180}

\* A page list that gives its last page for an index past the end.
ReaderPage_Clamped(page_num) ==
    LET i == IF page_num < 0 THEN num_pages + page_num ELSE page_num
    IN  IF i < 0 THEN -1 ELSE IF i >= num_pages THEN num_pages - 1 ELSE i

\* self.reader.pages[page_num]: the sequence protocol of the page list.  A
\* negative index counts from the end; anything else outside 0..n-1 raises
\* IndexError.  The result is the 0-based index, or -1 for IndexError.
ReaderPage(page_num) ==
    LET i == IF page_num < 0 THEN num_pages + page_num ELSE page_num
    IN  IF i < 0 \/ i >= num_pages THEN -1 ELSE i

Call(op, page, path, res) == [op |-> op, page |-> page, path |-> path, res |-> res]

\* Every call is recorded, whether it returned or raised.
Returned(op, page, path, res) ==
    /\ UNCHANGED <<cleanVars, genVars, imVars>>
    /\ calls < MaxOps
    /\ calls' = calls + 1
    /\ last' = Call(op, page, path, res)

\* get_page_count returns self.num_pages; the count returned is recorded in
\* the page field of the call.
get_page_count ==
    /\ Returned("get_page_count", num_pages, "", "Count")
    /\ UNCHANGED <<num_pages, writer, edited, files>>

\* A drawing operation that adds every page of the document to the writer.
DrawOnPage_WholeDocument(op, page_num, drawn) ==
    LET i == ReaderPage(page_num) IN
    /\ IF ~drawn
       THEN /\ Returned(op, page_num, "", "DrawError")
            /\ UNCHANGED <<writer, edited>>
       ELSE IF i = -1
       THEN /\ Returned(op, page_num, "", "IndexError")
            /\ UNCHANGED <<writer, edited>>
       ELSE /\ edited' = edited \cup {i}
            /\ writer' = writer \o [j \in 1..num_pages |-> Page("src", j - 1)]
            /\ Returned(op, page_num, "", "True")
    /\ UNCHANGED <<num_pages, files>>

\* The four drawing operations share one shape: the overlay is drawn first
\* (and may raise on a bad font, colour or image), then the target page is
\* looked up, the overlay merged into it and the page added to the writer.
DrawOnPage(op, page_num, drawn) ==
    LET i == ReaderPage(page_num) IN
    /\ IF ~drawn
       THEN /\ Returned(op, page_num, "", "DrawError")
            /\ UNCHANGED <<writer, edited>>
       ELSE IF i = -1
       THEN /\ Returned(op, page_num, "", "IndexError")
            /\ UNCHANGED <<writer, edited>>
       ELSE /\ edited' = edited \cup {i}
            /\ writer' = Append(writer, Page("src", i))
            /\ Returned(op, page_num, "", "True")
    /\ UNCHANGED <<num_pages, files>>

add_text == \E p \in PageNums, drawn \in BOOLEAN : DrawOnPage("add_text", p, drawn)

add_image == \E p \in PageNums, drawn \in BOOLEAN : DrawOnPage("add_image", p, drawn)

add_rectangle == \E p \in PageNums, drawn \in BOOLEAN : DrawOnPage("add_rectangle", p, drawn)

add_line == \E p \in PageNums, drawn \in BOOLEAN : DrawOnPage("add_line", p, drawn)

RotateOn(page_num, angle) ==
    LET i == ReaderPage(page_num) IN
    /\ IF i = -1
       THEN /\ Returned("rotate_page", page_num, "", "IndexError")
            /\ UNCHANGED <<writer, edited>>
       ELSE /\ edited' = edited \cup {i}
            /\ writer' = Append(writer, Page("src", i))
            /\ Returned("rotate_page", page_num, "", "True")
    /\ UNCHANGED <<num_pages, files>>

rotate_page == \E p \in PageNums, a \in Angles : RotateOn(p, a)

\* A delete_page that counts pages from 1 when it compares with page_num.
RECURSIVE OtherPages_OneBased(_, _)
OtherPages_OneBased(i, page_num) ==
    IF i >= num_pages THEN <<>>
    ELSE (IF i + 1 # page_num THEN <<Page("src", i)>> ELSE <<>>)
         \o OtherPages_OneBased(i + 1, page_num)

\* for i in range(self.num_pages): if i != page_num: add_page(pages[i])
RECURSIVE OtherPages(_, _)
OtherPages(i, page_num) ==
    IF i >= num_pages THEN <<>>
    ELSE (IF i # page_num THEN <<Page("src", i)>> ELSE <<>>)
         \o OtherPages(i + 1, page_num)

\* A delete_page that rebuilds the writer from the pages it keeps.
DeleteOn_Rebuild(page_num) ==
    /\ writer' = OtherPages(0, page_num)
    /\ Returned("delete_page", page_num, "", "True")
    /\ UNCHANGED <<num_pages, edited, files>>

DeleteOn(page_num) ==
    /\ writer' = writer \o OtherPages(0, page_num)
    /\ Returned("delete_page", page_num, "", "True")
    /\ UNCHANGED <<num_pages, edited, files>>

delete_page == \E p \in PageNums : DeleteOn(p)

ExtractOn(page_num) ==
    /\ Returned("extract_text", page_num, "",
                IF ReaderPage(page_num) = -1 THEN "IndexError" ELSE "Text")
    /\ UNCHANGED <<num_pages, writer, edited, files>>

extract_text == \E p \in PageNums : ExtractOn(p)

\* A save that adds the writer's pages to what the file already holds.
SaveTo_Appending(output_path) ==
    /\ IF output_path \in Unwritable
       THEN /\ Returned("save", 0, output_path, "IOError")
            /\ UNCHANGED files
       ELSE /\ files' = [files EXCEPT ![output_path] = FileOf(@.pages \o writer)]
            /\ Returned("save", 0, output_path, "True")
    /\ UNCHANGED <<num_pages, writer, edited>>

\* with open(output_path, 'wb') as output_file: self.writer.write(output_file)
SaveTo(output_path) ==
    /\ IF output_path \in Unwritable
       THEN /\ Returned("save", 0, output_path, "IOError")
            /\ UNCHANGED files
       ELSE /\ files' = [files EXCEPT ![output_path] = FileOf(writer)]
            /\ Returned("save", 0, output_path, "True")
    /\ UNCHANGED <<num_pages, writer, edited>>

save == \E p \in OutPaths : SaveTo(p)

RECURSIVE DocPageSeq(_, _)
DocPageSeq(d, i) ==
    IF i >= DocPages(d) THEN <<>> ELSE <<Page(d, i)>> \o DocPageSeq(d, i + 1)

\* for pdf_path in pdf_paths: reader = PdfReader(pdf_path); add every page.
\* The pages of the documents before the first unreadable one are added.
RECURSIVE MergedPages(_)
MergedPages(pdf_paths) ==
    IF pdf_paths = <<>> \/ ~Readable(Head(pdf_paths)) THEN <<>>
    ELSE DocPageSeq(Head(pdf_paths), 0) \o MergedPages(Tail(pdf_paths))

\* A merge that leaves the writer as it was when a document cannot be read.
MergeOf_RollingBack(pdf_paths) ==
    /\ writer' = IF \E k \in 1..Len(pdf_paths) : ~Readable(pdf_paths[k])
                 THEN writer
                 ELSE writer \o MergedPages(pdf_paths)
    /\ Returned("merge_pdfs", Len(pdf_paths), pdf_paths,
                IF \E k \in 1..Len(pdf_paths) : ~Readable(pdf_paths[k])
                THEN "IOError" ELSE "True")
    /\ UNCHANGED <<num_pages, edited, files>>

\* A merge that counts the pages it added into the editor's page count.
MergeOf_Recounting(pdf_paths) ==
    /\ writer' = writer \o MergedPages(pdf_paths)
    /\ num_pages' = num_pages + Len(MergedPages(pdf_paths))
    /\ Returned("merge_pdfs", Len(pdf_paths), pdf_paths,
                IF \E k \in 1..Len(pdf_paths) : ~Readable(pdf_paths[k])
                THEN "IOError" ELSE "True")
    /\ UNCHANGED <<edited, files>>

MergeOf(pdf_paths) ==
    /\ writer' = writer \o MergedPages(pdf_paths)
    /\ Returned("merge_pdfs", Len(pdf_paths), pdf_paths,
                IF \E k \in 1..Len(pdf_paths) : ~Readable(pdf_paths[k])
                THEN "IOError" ELSE "True")
    /\ UNCHANGED <<num_pages, edited, files>>

merge_pdfs ==
    \E pdf_paths \in {<<>>} \cup {<<a>> : a \in MergeDocs}
                     \cup {<<a, b>> : a \in MergeDocs, b \in MergeDocs} :
        MergeOf(pdf_paths)

\* PDFEditor.__init__ on a readable document of 1..MaxPages pages.
InitPdf ==
    /\ num_pages \in 1..MaxPages
    /\ writer = <<>>
    /\ edited = {}
    /\ files \in {[p \in OutPaths |-> IF p \in Unwritable THEN OldFile ELSE f] :
                    f \in {NoFile, OldFile}}
    /\ last = Call("__init__", 0, "", "None")
    /\ calls = 0

\* No editor is in use: the state of the other specifications.
NoPdf ==
    /\ num_pages = 1
    /\ writer = <<>>
    /\ edited = {}
    /\ files = [p \in OutPaths |-> NoFile]
    /\ last = Call("__init__", 0, "", "None")
    /\ calls = 0

NextPdf ==
    \/ delete_page
    \/ add_text
    \/ add_image
    \/ add_rectangle
    \/ add_line
    \/ rotate_page
    \/ extract_text
    \/ save
    \/ merge_pdfs
    \/ get_page_count

(***************************************************************************)
(* Text cleaner: HTMLNewsletterGenerator._clean_repetitive_text            *)
(*                                                                         *)
(* A text is a sequence of one-character strings.                          *)
(***************************************************************************)
IsSpace(c) == c \in {" ", "\t"}

IsPunct(c) == c \in {".", "!", "?"}

\* str.lower() on the letters the inputs use.
Lower(c) ==
    CASE c = "A" -> "a" [] c = "B" -> "b" [] c = "C" -> "c"
      [] c = "D" -> "d" [] c = "E" -> "e" [] OTHER -> c

LowerAll(s) == [i \in 1..Len(s) |-> Lower(s[i])]

RECURSIVE LStrip(_)
LStrip(s) ==
    IF s = <<>> THEN s
    ELSE IF IsSpace(Head(s)) THEN LStrip(Tail(s)) ELSE s

RECURSIVE RStrip(_)
RStrip(s) ==
    IF s = <<>> THEN s
    ELSE IF IsSpace(s[Len(s)]) THEN RStrip(SubSeq(s, 1, Len(s) - 1)) ELSE s

\* str.strip()
Strip(s) == RStrip(LStrip(s))

\* The first position at or after i that holds no punctuation mark.
RECURSIVE PunctEnd(_, _)
PunctEnd(s, i) ==
    IF i <= Len(s) /\ IsPunct(s[i]) THEN PunctEnd(s, i + 1) ELSE i

\* The first position at or after i that holds no whitespace.
RECURSIVE SpaceEnd(_, _)
SpaceEnd(s, i) ==
    IF i <= Len(s) /\ IsSpace(s[i]) THEN SpaceEnd(s, i + 1) ELSE i

\* re.split(r'([.!?]+)\s+', s): the texts between the matches, alternating
\* with the punctuation each match captured.  A run of punctuation matches
\* only when whitespace follows the whole run.  `from` is where the current
\* piece starts and i the position being scanned.
RECURSIVE ReSplit(_, _, _)
ReSplit(s, from, i) ==
    IF i > Len(s) THEN <<SubSeq(s, from, Len(s))>>
    ELSE IF IsPunct(s[i])
    THEN LET j == PunctEnd(s, i) IN
         IF j <= Len(s) /\ IsSpace(s[j])
         THEN LET k == SpaceEnd(s, j) IN
              <<SubSeq(s, from, i - 1), SubSeq(s, i, j - 1)>> \o ReSplit(s, k, k)
         ELSE ReSplit(s, from, j)
    ELSE ReSplit(s, from, i + 1)

\* The loop over range(0, len(sentences) - 1, 2): a non-blank piece is
\* stripped and gets the punctuation that followed it.  i is 1-based.
RECURSIVE Reattach(_, _)
Reattach(sentences, i) ==
    IF i >= Len(sentences) THEN <<>>
    ELSE (IF Strip(sentences[i]) # <<>>
          THEN <<Strip(Strip(sentences[i]) \o sentences[i + 1])>>
          ELSE <<>>)
         \o Reattach(sentences, i + 2)

\* full_sentences: the reattached sentences, then the last piece if it is
\* not blank.
FullSentences(sentences) ==
    Reattach(sentences, 1)
    \o (IF Len(sentences) % 2 = 1 /\ Strip(sentences[Len(sentences)]) # <<>>
        THEN <<Strip(sentences[Len(sentences)])>>
        ELSE <<>>)

\* ' '.join(s.split()): whitespace runs collapsed to one space, none at the
\* ends.
RECURSIVE Collapse(_)
Collapse(s) ==
    LET t == LStrip(s) IN
    IF t = <<>> THEN <<>>
    ELSE LET e == CHOOSE k \in 2..(Len(t) + 1) :
                      /\ k = Len(t) + 1 \/ IsSpace(t[k])
                      /\ \A m \in 2..(k - 1) : ~IsSpace(t[m])
             rest == Collapse(SubSeq(t, e, Len(t)))
         IN  SubSeq(t, 1, e - 1) \o (IF rest = <<>> THEN <<>> ELSE <<" ">> \o rest)

\* normalized = ' '.join(sentence.lower().split())
Normalized(sentence) == Collapse(LowerAll(sentence))

\* len(normalized) > 5
MinLength == 5

\* A filter that forgets what it has seen whenever it drops a sentence.
RECURSIVE Dedupe_Forgetful(_, _, _)
Dedupe_Forgetful(full, i, seen) ==
    IF i > Len(full) THEN <<>>
    ELSE LET n == Normalized(full[i]) IN
         IF n # <<>> /\ n \notin seen /\ Len(n) > MinLength
         THEN <<full[i]>> \o Dedupe_Forgetful(full, i + 1, seen \cup {n})
         ELSE Dedupe_Forgetful(full, i + 1, {})

\* The loop over full_sentences: a sentence is kept when its normalized form
\* is not empty, was not seen before and is longer than MinLength.
RECURSIVE Dedupe(_, _, _)
Dedupe(full, i, seen) ==
    IF i > Len(full) THEN <<>>
    ELSE LET n == Normalized(full[i]) IN
         IF n # <<>> /\ n \notin seen /\ Len(n) > MinLength
         THEN <<full[i]>> \o Dedupe(full, i + 1, seen \cup {n})
         ELSE Dedupe(full, i + 1, seen)

\* ' '.join(cleaned)
RECURSIVE Join(_)
Join(cleaned) ==
    IF cleaned = <<>> THEN <<>>
    ELSE IF Len(cleaned) = 1 THEN cleaned[1]
    ELSE cleaned[1] \o <<" ">> \o Join(Tail(cleaned))

_clean_repetitive_text(text) ==
    IF text = <<>> THEN text
    ELSE LET stripped == Strip(text) IN
         IF stripped = <<>> THEN stripped
         ELSE LET result == Join(Dedupe(FullSentences(ReSplit(stripped, 1, 1)), 1, {}))
              IN  IF result # <<>> THEN result ELSE stripped

\* The texts the cleaner is run on: every concatenation of at most
\* MaxPieces of these pieces, and the examples.
Pieces ==
    { <<"a", "b", "c", "d", "e", ".">>,
      <<"A", "B", "C", "D", "E", ".">>,
      <<"A", ".">>,
      <<" ">>,
      <<"a", "b", " ", "\t", "c", "d">>,
      <<"!">> }

RECURSIVE Concat(_)
Concat(ps) == IF ps = <<>> THEN <<>> ELSE Head(ps) \o Concat(Tail(ps))

PieceTexts ==
    UNION { {Concat(ps) : ps \in [1..n -> Pieces]} : n \in 0..MaxPieces }

Text_A_A_B == <<"A", ".", " ", "A", ".", " ", "B", ".">>

ExampleTexts == {Text_A_A_B}

InitClean ==
    /\ cl_pc = "input"
    /\ cl_text \in PieceTexts \cup ExampleTexts
    /\ cl_out = <<>>
    /\ cl_again = <<>>

\* No text is being cleaned: the state of the other specifications.
NoClean ==
    /\ cl_pc = "idle"
    /\ cl_text = <<>>
    /\ cl_out = <<>>
    /\ cl_again = <<>>

Clean ==
    /\ cl_pc = "input"
    /\ cl_out' = _clean_repetitive_text(cl_text)
    /\ cl_pc' = "cleaned"
    /\ UNCHANGED <<cl_text, cl_again, pdfVars, genVars, imVars>>

CleanAgain ==
    /\ cl_pc = "cleaned"
    /\ cl_again' = _clean_repetitive_text(cl_out)
    /\ cl_pc' = "recleaned"
    /\ UNCHANGED <<cl_text, cl_out, pdfVars, genVars, imVars>>

NextClean ==
    \/ Clean
    \/ CleanAgain

(***************************************************************************)
(* Newsletter generation: HTMLNewsletterGenerator                          *)
(***************************************************************************)
\* pandas reads a blank cell as NaN.
NaN == "<NaN>"

\* pd.notna(v)
notna(v) == v # NaN

SheetNames ==
    {"Newsletter Info", "Editorial Board", "Vision & Mission",
     "Program Objectives", "Program Outcomes", "Department Events",
     "Contact Info"}

\* The order in which _load_data reads the sheets.
ReadOrder ==
    <<"Newsletter Info", "Editorial Board", "Vision & Mission",
      "Program Objectives", "Program Outcomes", "Department Events",
      "Contact Info">>

\* A loader that reads every sheet without looking whether it is there.
Guarded_None == {}

\* A loader that looks for every sheet before it reads it.
Guarded_All == SheetNames

\* The sheets read only `if name in excel_file.sheet_names`.
Guarded ==
    {"Vision & Mission", "Program Objectives", "Program Outcomes",
     "Contact Info"}

\* The rows of a sheet, each a function from column name to cell value.
Rows(name) == workbook.rows[name]

\* df.dropna(subset=[col]).to_dict('records')
dropna(rows, col) == SelectSeq(rows, LAMBDA r : notna(r[col]))

\* {row['Field']: row['Value'] for _, row in df.iterrows() if notna(row['Field'])}
\* A later row wins over an earlier one with the same Field.
FieldDict(rows) ==
    LET kept == dropna(rows, "Field") IN
    [f \in {kept[i]["Field"] : i \in 1..Len(kept)} |->
        LET i == CHOOSE i \in 1..Len(kept) :
                    /\ kept[i]["Field"] = f
                    /\ \A j \in (i + 1)..Len(kept) : kept[j]["Field"] # f
        IN  kept[i]["Value"]]

\* c.strip() on the column names the sheets use.
StripName(c) ==
    CASE c = " Objective " -> "Objective"
      [] c = "Outcome " -> "Outcome"
      [] OTHER -> c

\* df.rename(columns={'Objective': 'Description', 'Outcome': 'Description'})
Alias(c) == IF c \in {"Objective", "Outcome"} THEN "Description" ELSE c

\* Inverse image of a renamed column among the columns of a row.
Renamed(row) ==
    [c \in {Alias(StripName(k)) : k \in DOMAIN row} |->
        row[CHOOSE k \in DOMAIN row : Alias(StripName(k)) = c]]

RenamedRows(rows) == [i \in 1..Len(rows) |-> Renamed(rows[i])]

\* What makes _load_data raise: the file cannot be opened, or a sheet that
\* is read unguarded is missing.  "" when nothing does.
RECURSIVE FirstMissing(_)
FirstMissing(i) ==
    IF i > Len(ReadOrder) THEN ""
    ELSE IF ReadOrder[i] \notin Guarded /\ ReadOrder[i] \notin workbook.sheets
    THEN ReadOrder[i]
    ELSE FirstMissing(i + 1)

LoadCause == IF ~workbook.readable THEN "unreadable file" ELSE FirstMissing(1)

\* A sheet that is read only when present.
Optional(name, rows, empty) == IF name \in workbook.sheets THEN rows ELSE empty

NoError == [stage |-> "", cause |-> ""]

EmptyData ==
    [info |-> <<>>, editorial |-> <<>>, vision_mission |-> <<>>, peo |-> <<>>,
     pso |-> <<>>, events |-> <<>>, contact |-> <<>>]

\* HTMLNewsletterGenerator.__init__: _load_data.  On an exception the object
\* is never returned, so none of self.data can be seen.
Load ==
    /\ gen_pc = "start"
    /\ IF LoadCause = ""
       THEN /\ data' =
                 [info |-> FieldDict(Rows("Newsletter Info")),
                  editorial |-> dropna(Rows("Editorial Board"), "Role"),
                  vision_mission |->
                      Optional("Vision & Mission",
                               dropna(Rows("Vision & Mission"), "Type"), <<>>),
                  peo |->
                      Optional("Program Objectives",
                               dropna(RenamedRows(Rows("Program Objectives")), "Code"),
                               <<>>),
                  pso |->
                      Optional("Program Outcomes",
                               dropna(RenamedRows(Rows("Program Outcomes")), "Code"),
                               <<>>),
                  events |-> dropna(Rows("Department Events"), "Event Title"),
                  contact |->
                      Optional("Contact Info", FieldDict(Rows("Contact Info")), <<>>)]
            /\ gen_pc' = "loaded"
            /\ UNCHANGED error
       ELSE /\ error' = [stage |-> "Error loading Excel", cause |-> LoadCause]
            /\ gen_pc' = "failed"
            /\ UNCHANGED data
    /\ UNCHANGED <<workbook, env, images, sections, html, out_file, pdfVars, cleanVars, imVars>>

(***************************************************************************)
(* Image resolver: _convert_images_to_base64                               *)
(***************************************************************************)
HeaderKeys == {"college_logo", "orbits_logo", "naac_badge", "vision"}

\* The keys generate_html looks up besides the header keys: the front image
\* ('1' for the default '1.png') and an event's Image Reference.
ContentKeys == {"1", "event1"}

ImageKeys == HeaderKeys \cup ContentKeys

\* os.path.join('static', 'images', os.path.basename(path)).replace('\\', '/')
StaticPath(key) ==
    CASE key = "college_logo" -> "static/images/college_logo.png"
      [] key = "orbits_logo" -> "static/images/orbits_logo.png"
      [] key = "naac_badge" -> "static/images/naac_badge.png"
      [] key = "vision" -> "static/images/vision.png"

\* A resolver that gives every header key its path without looking for the
\* file.
HeaderPaths_Unchecked == [k \in HeaderKeys |-> StaticPath(k)]

\* image_paths after the loop over header_keys: a header key has a path
\* exactly when its static file exists.
HeaderPaths == [k \in (HeaderKeys \cap env.static) |-> StaticPath(k)]

\* What the caller's file for a key is: "missing" (no such file), "image"
\* (a readable image), "corrupt" (a file Pillow cannot open) or "unreadable"
\* (a file that exists and cannot be opened at all).
FileState(key) == env.image_paths[key]

\* _encode_image(path) returns a payload: with Pillow a re-encoded image,
\* without it the raw bytes of whatever the file holds.  None (here FALSE)
\* when Pillow raises on the file.
Encodes(key) ==
    /\ FileState(key) # "unreadable"
    /\ env.has_pil => FileState(key) = "image"

\* An _encode_image that lets the exception of Image.open or open pass.
Caught_Nothing(key) == FALSE

\* except Exception: return None -- whatever Image.open, resize, save or
\* open raises on the file is caught inside _encode_image.
Caught(key) == TRUE

Payload(key) == [of |-> key, by |-> IF env.has_pil THEN "PIL" ELSE "raw"]

NoPayload == [of |-> "", by |-> ""]

\* A resolver that never skips a caller key.
Skipped_Never(key, image_paths) == FALSE

\* A resolver that skips the caller keys that have no path.
Skipped_Inverted(key, image_paths) == key \notin DOMAIN image_paths

\* if key in image_paths: continue
Skipped(key, image_paths) == key \in DOMAIN image_paths

\* embedded_images after the loop over self.image_paths.
EmbeddedImages(image_paths) ==
    [k \in {k \in DOMAIN env.image_paths :
                /\ ~Skipped(k, image_paths)
                /\ FileState(k) # "missing"
                /\ Encodes(k)} |-> Payload(k)]

\* The loop over self.image_paths raises on this key: its file is there, is
\* not skipped, cannot be encoded and the exception is not caught.
Raises(key, image_paths) ==
    /\ ~Skipped(key, image_paths)
    /\ FileState(key) # "missing"
    /\ ~Encodes(key)
    /\ ~Caught(key)

\* d.get(key, '') on a dict of payloads
GetPayload(d, key) == IF key \in DOMAIN d THEN d[key] ELSE NoPayload

\* d.get(key) on a dict of paths: None is the empty path here
GetPath(d, key) == IF key \in DOMAIN d THEN d[key] ELSE ""

(***************************************************************************)
(* Section grouper and event details                                       *)
(***************************************************************************)
\* A grouper that folds the case of the section name.
SectionOf_Folded(event) ==
    IF "Department/Section" \in DOMAIN event
    THEN IF event["Department/Section"] = "Tech Talks"
         THEN "tech talks"
         ELSE event["Department/Section"]
    ELSE "OTHER ACTIVITIES"

\* event.get('Department/Section', 'OTHER ACTIVITIES'): the default is used
\* only when the row has no such column.
SectionOf(event) ==
    IF "Department/Section" \in DOMAIN event
    THEN event["Department/Section"]
    ELSE "OTHER ACTIVITIES"

\* _group_events_by_section: the loop over self.data['events'], from the
\* i-th event on, with the dict built so far.
RECURSIVE GroupFrom(_, _, _)
GroupFrom(events, i, grouped) ==
    IF i > Len(events) THEN grouped
    ELSE LET section == SectionOf(events[i]) IN
         IF notna(section)
         THEN LET started == IF section \in DOMAIN grouped
                             THEN grouped
                             ELSE grouped @@ (section :> <<>>)
              IN  GroupFrom(events, i + 1,
                            [started EXCEPT ![section] = Append(@, events[i])])
         ELSE GroupFrom(events, i + 1, grouped)

_group_events_by_section == GroupFrom(data.events, 1, <<>>)

\* The section names in the order Python compares strings (by code point).
CodepointOrder ==
    <<"Alpha", "Beta", "Gamma", "OTHER ACTIVITIES", "Tech Talks", "tech talks">>

\* sorted(sections.keys())
sorted(names) == SelectSeq(CodepointOrder, LAMBDA n : n \in names)

\* event.get(key): None when the row has no such column; pd.notna(None) is
\* False like pd.notna(NaN), so None is NaN here.
GetCell(event, key) == IF key \in DOMAIN event THEN event[key] ELSE NaN

\* str(v).lower() != 'nan'
NotNanText(v) == v \notin {"nan", "NaN", "NAN", "Nan"}

Detail(label, value) == [label |-> label, value |-> value]

\* _build_event_details
_build_event_details(event) ==
    LET speaker == GetCell(event, "Guest Speaker")
        location == GetCell(event, "Location")
    IN  (IF notna(speaker) /\ NotNanText(speaker)
         THEN <<Detail("Guest Speaker", speaker)>> ELSE <<>>)
        \o
        (IF notna(location) /\ NotNanText(location)
         THEN <<Detail("Location", location)>> ELSE <<>>)

\* event_details_list: the details of every loaded event, in load order.
EventDetailsList == [i \in 1..Len(data.events) |-> _build_event_details(data.events[i])]

\* 'vision' in str(item.get('Type', '')).lower(), on the Type values used.
TypeHas(type, word) ==
    CASE word = "vision" -> type \in {"Vision", "VISION", "Vision & Mission"}
      [] word = "mission" -> type \in {"Mission", "MISSION", "Vision & Mission"}

\* _get_vision_mission_by_type
VisionItems == SelectSeq(data.vision_mission, LAMBDA item : TypeHas(item["Type"], "vision"))

MissionItems == SelectSeq(data.vision_mission, LAMBDA item : TypeHas(item["Type"], "mission"))

(***************************************************************************)
(* Template renderer: generate_html and html_template                      *)
(***************************************************************************)
\* {% if x_path %} <img src="/x_path"> {% elif x_b64 %} <img src="data:..."> {% endif %}
ImgBlock(path, payload) ==
    IF path # "" THEN [src |-> "path", path |-> path, payload |-> NoPayload]
    ELSE IF payload # NoPayload THEN [src |-> "inline", path |-> "", payload |-> payload]
    ELSE [src |-> "none", path |-> "", payload |-> NoPayload]

\* The header block every page starts with.
HeaderBlock(paths, embedded) ==
    [college_logo |-> ImgBlock(GetPath(paths, "college_logo"),
                               GetPayload(embedded, "college_logo")),
     orbits_logo |-> ImgBlock(GetPath(paths, "orbits_logo"),
                              GetPayload(embedded, "orbits_logo")),
     naac_badge |-> ImgBlock(GetPath(paths, "naac_badge"),
                             GetPayload(embedded, "naac_badge"))]

\* os.path.splitext(str(front_image_field))[0].lower() if front_image_field
\* else '1', on the values the Front Image field takes.
FrontImageKey(field) ==
    CASE field = "" -> "1"
      [] field = "1.png" -> "1"
      [] field = "Event1.PNG" -> "event1"
      [] field = NaN -> "nan"
      [] OTHER -> field

\* self.data['info'].get('Front Image', '1.png')
FrontImageField == IF "Front Image" \in DOMAIN data.info THEN data.info["Front Image"] ELSE "1.png"

\* section_name.upper()
Upper(name) ==
    CASE name = "Alpha" -> "ALPHA"
      [] name = "Beta" -> "BETA"
      [] name = "Gamma" -> "GAMMA"
      [] name = "Tech Talks" -> "TECH TALKS"
      [] name = "tech talks" -> "TECH TALKS"
      [] OTHER -> name

\* start_section_page = 4
start_section_page == 4

\* A page map that counts the sections from 1.
SectionPageMap_OneBased(sorted_sections) ==
    [name \in {sorted_sections[i] : i \in 1..Len(sorted_sections)} |->
        start_section_page
        + (CHOOSE i \in 1..Len(sorted_sections) : sorted_sections[i] = name)]

\* {name: start_section_page + idx for idx, name in enumerate(sorted_sections)}
SectionPageMap(sorted_sections) ==
    [name \in {sorted_sections[i] : i \in 1..Len(sorted_sections)} |->
        start_section_page
        + (CHOOSE i \in 1..Len(sorted_sections) : sorted_sections[i] = name) - 1]

\* A contents table that lists the sections in reverse order.
ContentsRows_Reversed(sorted_sections) ==
    [i \in 1..Len(sorted_sections) |->
        LET name == sorted_sections[Len(sorted_sections) + 1 - i] IN
        [sno |-> i,
         name |-> Upper(name),
         page |-> SectionPageMap(sorted_sections)[name]]]

\* The rows of the contents table.
ContentsRows(sorted_sections) ==
    [i \in 1..Len(sorted_sections) |->
        [sno |-> i,
         name |-> Upper(sorted_sections[i]),
         page |-> SectionPageMap(sorted_sections)[sorted_sections[i]]]]

\* {% if event[key] %} ... {{ event[key] }} ... {% endif %}: "" when the
\* block is left out.  A missing column is undefined and an empty string is
\* false; NaN is a true value and prints as 'nan'.
Shown(event, key) ==
    IF key \notin DOMAIN event THEN ""
    ELSE IF event[key] = NaN THEN "nan"
    ELSE event[key]

\* str(event['Image Reference']) if event['Image Reference'] else ''
ImageRef(event) == Shown(event, "Image Reference")

\* One pass of {% for event in sections[section_name] %}: j is the 1-based
\* position of the event in its section, so loop.index0 is j - 1 and
\* event_details_map[loop.index0] is the j-th entry of the list.
EventBlock(event, j, event_details_map, embedded) ==
    [title |-> event["Event Title"],
     date |-> Shown(event, "Event Date"),
     details |-> event_details_map[j],
     image |-> GetPayload(embedded, ImageRef(event)),
     description |-> Shown(event, "Event Description"),
     coordinators |-> Shown(event, "Coordinators")]

SectionPage(section_name, grouped, header, event_details_map, embedded) ==
    [kind |-> "section",
     header |-> header,
     title |-> Upper(section_name),
     name |-> section_name,
     events |-> [j \in 1..Len(grouped[section_name]) |->
                    EventBlock(grouped[section_name][j], j, event_details_map, embedded)]]

\* 'editor' in role.lower() or 'managing' ... or 'executive' ... or 'director' ...
IsLeadership(role) ==
    role \in {"Editor", "Chief Editor", "Managing Editor", "Executive Director",
              "DIRECTOR"}

\* template.render(...): the pages of the document, in order.
Rendered(embedded, paths, grouped) ==
    LET header == HeaderBlock(paths, embedded)
        sorted_sections == sorted(DOMAIN grouped)
        details == EventDetailsList
    IN  << [kind |-> "editorial",
            header |-> header,
            main_image |-> GetPayload(embedded, FrontImageKey(FrontImageField)),
            members |-> SelectSeq(data.editorial, LAMBDA m : m["Role"] # "")],
           [kind |-> "vision",
            header |-> header,
            vision |-> VisionItems,
            mission |-> MissionItems,
            vision_image |-> ImgBlock(GetPath(paths, "vision"),
                                      GetPayload(embedded, "vision")),
            peo |-> data.peo,
            pso |-> data.pso],
           [kind |-> "contents",
            header |-> header,
            rows |-> ContentsRows(sorted_sections)] >>
        \o [i \in 1..Len(sorted_sections) |->
               SectionPage(sorted_sections[i], grouped, header, details, embedded)]
        \o << [kind |-> "contact",
               header |-> header,
               email |-> IF "Email" \in DOMAIN data.contact /\ data.contact["Email"] # ""
                         THEN data.contact["Email"]
                         ELSE "kitecse@kgkite.ac.in",
               board |-> SelectSeq(data.editorial,
                                   LAMBDA m : m["Role"] # "" /\ IsLeadership(m["Role"]))] >>

\* _convert_images_to_base64 returns (embedded_images, image_paths).
_convert_images_to_base64 ==
    [embedded |-> EmbeddedImages(HeaderPaths), paths |-> HeaderPaths]

NoImages == [embedded |-> <<>>, paths |-> <<>>]

\* A spreadsheet cell holding a number: pandas loads it as an int, not a str.
NumberCell == "<2024>"

\* isinstance(v, str), on the values a Department/Section cell takes.
IsText(v) == v # NumberCell

\* What makes the rendering raise: a section name that is not a str has no
\* upper() for {{ section_name.upper() }} (and does not compare with a str in
\* sorted).  "" when nothing does.
RenderCause(grouped) ==
    IF \E name \in DOMAIN grouped : ~IsText(name)
    THEN "section name is not a str"
    ELSE ""

\* What makes generate_html raise: the image resolver, or the rendering.
GenerateCause ==
    IF \E key \in DOMAIN env.image_paths : Raises(key, HeaderPaths)
    THEN "image cannot be encoded"
    ELSE RenderCause(_group_events_by_section)

\* A generate that opens the output file before it renders.
GenerateHtml_OpensFirst ==
    /\ gen_pc = "loaded"
    /\ out_file' = [exists |-> TRUE, content |-> <<>>]
    /\ IF GenerateCause = ""
       THEN /\ images' = _convert_images_to_base64
            /\ sections' = _group_events_by_section
            /\ html' = Rendered(images'.embedded, images'.paths, sections')
            /\ gen_pc' = "rendered"
            /\ UNCHANGED error
       ELSE /\ error' = [stage |-> "Error generating newsletter",
                         cause |-> GenerateCause]
            /\ gen_pc' = "failed"
            /\ UNCHANGED <<images, sections, html>>
    /\ UNCHANGED <<workbook, env, data, pdfVars, cleanVars, imVars>>

\* generate_html, called first thing in generate: resolve the images, group
\* the events, render.  An exception leaves generate through its except
\* clause, as "Error generating newsletter: ...", before the file is opened.
GenerateHtml ==
    /\ gen_pc = "loaded"
    /\ IF GenerateCause = ""
       THEN /\ images' = _convert_images_to_base64
            /\ sections' = _group_events_by_section
            /\ html' = Rendered(images'.embedded, images'.paths, sections')
            /\ gen_pc' = "rendered"
            /\ UNCHANGED error
       ELSE /\ error' = [stage |-> "Error generating newsletter",
                         cause |-> GenerateCause]
            /\ gen_pc' = "failed"
            /\ UNCHANGED <<images, sections, html>>
    /\ UNCHANGED <<workbook, env, data, out_file, pdfVars, cleanVars, imVars>>

NoOutput == [exists |-> FALSE, content |-> <<>>]

OldOutput == [exists |-> TRUE, content |-> <<[kind |-> "earlier run"]>>]

\* generate, after generate_html: makedirs, open(html_path, 'w'), write.
\* Any exception is raised again as "Error generating newsletter: ...".
WriteOutput ==
    /\ gen_pc = "rendered"
    /\ IF env.out_writable
       THEN /\ out_file' = [exists |-> TRUE, content |-> html]
            /\ gen_pc' = "done"
            /\ UNCHANGED error
       ELSE /\ error' = [stage |-> "Error generating newsletter",
                         cause |-> "cannot write"]
            /\ gen_pc' = "failed"
            /\ UNCHANGED out_file
    /\ UNCHANGED <<workbook, env, data, images, sections, html, pdfVars, cleanVars, imVars>>

NextGen ==
    \/ Load
    \/ GenerateHtml
    \/ WriteOutput

(***************************************************************************)
(* Inputs of a generation run                                              *)
(***************************************************************************)
EventRow(title, section, speaker, location) ==
    ("Event Title" :> title) @@ ("Department/Section" :> section)
    @@ ("Guest Speaker" :> speaker) @@ ("Location" :> location)

\* A row of a Department Events sheet that has no Department/Section column.
EventRowNoSection(title, speaker, location) ==
    ("Event Title" :> title) @@ ("Guest Speaker" :> speaker)
    @@ ("Location" :> location)

SectionValues == {NaN, "Alpha", "Beta"}
SpeakerValues == {NaN, "Dr. X"}
LocationValues == {NaN, "Hall"}

\* Rows of a sheet with a Department/Section column: one without a title,
\* and every titled row.
EventRows ==
    {EventRow(NaN, NaN, NaN, NaN)}
    \cup {EventRow("Talk", s, sp, l) :
            s \in SectionValues, sp \in SpeakerValues, l \in LocationValues}

EventRowsNoSection ==
    {EventRowNoSection(NaN, NaN, NaN)}
    \cup {EventRowNoSection("Talk", sp, l) :
            sp \in SpeakerValues, l \in LocationValues}

SeqsUpTo(S, n) == UNION {[1..k -> S] : k \in 0..n}

EventSheets == SeqsUpTo(EventRows, MaxEvents) \cup SeqsUpTo(EventRowsNoSection, MaxEvents)

InfoRows ==
    << [Field |-> "Month", Value |-> "AUGUST"],
       [Field |-> NaN, Value |-> "stray"],
       [Field |-> "Front Image", Value |-> "1.png"] >>

EditorialRows ==
    << [Role |-> "Editor", Name |-> "A. Kumar", Designation |-> "Professor"],
       [Role |-> NaN, Name |-> "B. Devi", Designation |-> NaN],
       [Role |-> "Member", Name |-> "C. Raj", Designation |-> "Student"] >>

VisionMissionRows ==
    << [Type |-> "Vision", Content |-> "To excel."],
       [Type |-> NaN, Content |-> "stray"],
       [Type |-> "Mission", Content |-> "To teach."] >>

ObjectiveRows ==
    << ("Code" :> "PEO1") @@ (" Objective " :> "Graduates will lead."),
       ("Code" :> NaN) @@ (" Objective " :> "stray") >>

OutcomeRows == << ("Code" :> "PSO1") @@ ("Outcome " :> "Design systems.") >>

ContactRows == << [Field |-> "Email", Value |-> "cse@example.org"] >>

SheetRows(events) ==
    [name \in SheetNames |->
        CASE name = "Newsletter Info" -> InfoRows
          [] name = "Editorial Board" -> EditorialRows
          [] name = "Vision & Mission" -> VisionMissionRows
          [] name = "Program Objectives" -> ObjectiveRows
          [] name = "Program Outcomes" -> OutcomeRows
          [] name = "Department Events" -> events
          [] name = "Contact Info" -> ContactRows]

Workbook(readable, sheets, events) ==
    [readable |-> readable, sheets |-> sheets, rows |-> SheetRows(events)]

TwoEvents ==
    << EventRow("Talk", "Beta", "Dr. X", NaN) @@ ("Image Reference" :> "event1"),
       EventRow("Talk", "Alpha", NaN, "Hall") @@ ("Image Reference" :> NaN) >>

DefaultWorkbook == Workbook(TRUE, SheetNames, TwoEvents)

FileStates == {"missing", "image", "corrupt", "unreadable"}

\* The caller's image_paths: at most MaxImages keys, each with the state of
\* the file it names.
ImagePathMaps ==
    UNION {[K -> FileStates] :
             K \in {K \in SUBSET ImageKeys : Cardinality(K) <= MaxImages}}

Env(static, image_paths, has_pil, out_writable, prior) ==
    [static |-> static, image_paths |-> image_paths, has_pil |-> has_pil,
     out_writable |-> out_writable, prior |-> prior]

DefaultEnv == Env(HeaderKeys, ("1" :> "image"), TRUE, TRUE, NoOutput)

\* The state at the call of generate_html_newsletter.
Started ==
    /\ gen_pc = "start"
    /\ data = EmptyData
    /\ images = NoImages
    /\ sections = <<>>
    /\ html = <<>>
    /\ out_file = env.prior
    /\ error = NoError

\* Runs that differ in the spreadsheet's sheets and readability.
InitLoad ==
    /\ workbook \in {Workbook(r, sh, ev) :
                        r \in BOOLEAN, sh \in SUBSET SheetNames,
                        ev \in {<<>>, TwoEvents}}
    /\ env \in {Env(HeaderKeys, ("1" :> "image"), TRUE, w, prior) :
                  w \in BOOLEAN, prior \in {NoOutput, OldOutput}}
    /\ Started

\* Runs that differ in the Department Events sheet.
InitGen ==
    /\ workbook \in {Workbook(TRUE, SheetNames, ev) : ev \in EventSheets}
    /\ env \in {Env(HeaderKeys, ("1" :> "image"), TRUE, w, NoOutput) : w \in BOOLEAN}
    /\ Started

\* Runs that differ in the image files.
InitImg ==
    /\ workbook = DefaultWorkbook
    /\ env \in {Env(static, paths, pil, TRUE, NoOutput) :
                  static \in SUBSET HeaderKeys, paths \in ImagePathMaps,
                  pil \in BOOLEAN}
    /\ Started

(***************************************************************************)
(* _encode_image with Pillow: the size of the re-encoded image             *)
(***************************************************************************)
\* def _encode_image(path, max_width=1000, quality=75)
max_width == 1000

\* None: the exception was caught and nothing was encoded.
NoImage == [ok |-> FALSE, w |-> 0, h |-> 0]

\* w, h = im.size; if w > max_width: new_h = int(max_width * h / w) and the
\* image is resized to (max_width, new_h).  The quotient of two positive
\* numbers of this size is truncated to its floor.
NewSize(size) ==
    IF size.w > max_width
    THEN [w |-> max_width, h |-> (max_width * size.h) \div size.w]
    ELSE size

\* im.resize raises ValueError on a size with a side below 1 ("height and
\* width must be > 0").
ResizeRaises(size) == size.w > max_width /\ (NewSize(size).w < 1 \/ NewSize(size).h < 1)

\* _encode_image on an opened image: resize, save, encode; any exception is
\* caught and None returned.
EncodeImage ==
    /\ im_pc = "opened"
    /\ im_out' = IF ResizeRaises(im_size)
                 THEN NoImage
                 ELSE [ok |-> TRUE, w |-> NewSize(im_size).w, h |-> NewSize(im_size).h]
    /\ im_pc' = "encoded"
    /\ UNCHANGED <<im_size, pdfVars, cleanVars, genVars>>

\* No image is being encoded: the state of the other specifications.
NoResize ==
    /\ im_pc = "idle"
    /\ im_size = [w |-> 1, h |-> 1]
    /\ im_out = NoImage

\* No spreadsheet has been handed over.
NoWorkbook == [readable |-> FALSE, sheets |-> {}, rows |-> <<>>]

\* No generation is running: the state of the other specifications.
NoGen ==
    /\ gen_pc = "idle"
    /\ workbook = NoWorkbook
    /\ env = DefaultEnv
    /\ data = EmptyData
    /\ images = NoImages
    /\ sections = <<>>
    /\ html = <<>>
    /\ out_file = NoOutput
    /\ error = NoError

\* An opened editor; no text is being cleaned and no generation runs.
PdfInit == InitPdf /\ NoClean /\ NoGen /\ NoResize

SpecPdf == PdfInit /\ [][NextPdf]_vars

CleanInit == InitClean /\ NoPdf /\ NoGen /\ NoResize

SpecClean == CleanInit /\ [][NextClean]_vars

LoadInit == InitLoad /\ NoPdf /\ NoClean /\ NoResize

SpecLoad == LoadInit /\ [][NextGen]_vars

GenInit == InitGen /\ NoPdf /\ NoClean /\ NoResize

SpecGen == GenInit /\ [][NextGen]_vars

ImgInit == InitImg /\ NoPdf /\ NoClean /\ NoResize

SpecImg == ImgInit /\ [][NextGen]_vars

\* Section names, two of them differing only in letter case.
SectionNames == {"Alpha", "Beta", "Gamma", "Tech Talks", "tech talks"}

SectionRows == {EventRow("Talk", s, NaN, NaN) : s \in SectionNames \cup {NaN}}

\* Runs that differ in the section names of the events.
InitSec ==
    /\ workbook \in {Workbook(TRUE, SheetNames, ev) :
                        ev \in SeqsUpTo(SectionRows, MaxEvents)}
    /\ env \in {Env(HeaderKeys, ("1" :> "image"), TRUE, w, NoOutput) : w \in BOOLEAN}
    /\ Started

SecInit == InitSec /\ NoPdf /\ NoClean /\ NoResize

SpecSec == SecInit /\ [][NextGen]_vars

\* A row of the Department Events sheet with its optional columns; a blank
\* cell is NaN.
EventRowWithFields(date, description, coordinators) ==
    EventRow("Talk", "Alpha", NaN, NaN)
    @@ ("Event Date" :> date) @@ ("Event Description" :> description)
    @@ ("Coordinators" :> coordinators)

FieldRows ==
    {EventRowWithFields(d, ds, c) :
        d \in {NaN, "12.08.2024"},
        ds \in {NaN, "About the talk.", "Held in May. Held in May."},
        c \in {NaN, "Ms. Y"}}

\* Runs that differ in the optional fields of the events.
InitFields ==
    /\ workbook \in {Workbook(TRUE, SheetNames, ev) :
                        ev \in SeqsUpTo(FieldRows, MaxEvents)}
    /\ env \in {Env(HeaderKeys, ("1" :> "image"), TRUE, w, NoOutput) : w \in BOOLEAN}
    /\ Started

FieldsInit == InitFields /\ NoPdf /\ NoClean /\ NoResize

SpecFields == FieldsInit /\ [][NextGen]_vars

\* Role cells: an empty one, one holding a single space, and two roles.
RoleValues == {NaN, " ", "Editor", "Member"}

EditorialSheets ==
    SeqsUpTo({[Role |-> r, Name |-> "A. Kumar", Designation |-> "Professor"] :
                 r \in RoleValues}, MaxRows)

\* Type cells: an empty one, the two types, one naming both and one naming
\* neither.
TypeValues == {NaN, "Vision", "Mission", "Vision & Mission", "Goal"}

VisionMissionSheets ==
    SeqsUpTo({[Type |-> t, Content |-> "To excel."] : t \in TypeValues}, MaxRows)

WorkbookWith(editorial, vision_mission) ==
    [DefaultWorkbook EXCEPT !.rows["Editorial Board"] = editorial,
                            !.rows["Vision & Mission"] = vision_mission]

\* Runs that differ in the Editorial Board sheet or in the Vision & Mission
\* sheet.
InitTables ==
    /\ workbook \in {WorkbookWith(ed, VisionMissionRows) : ed \in EditorialSheets}
                    \cup {WorkbookWith(EditorialRows, vm) : vm \in VisionMissionSheets}
    /\ env \in {Env(HeaderKeys, ("1" :> "image"), TRUE, w, NoOutput) : w \in BOOLEAN}
    /\ Started

TablesInit == InitTables /\ NoPdf /\ NoClean /\ NoResize

SpecTables == TablesInit /\ [][NextGen]_vars

\* Runs that differ in the kind of the section cells, in whether the output
\* can be written and in what the output path holds from before.
RenderInit ==
    /\ workbook \in {Workbook(TRUE, SheetNames, ev) :
                        ev \in SeqsUpTo({EventRow("Talk", s, NaN, NaN) :
                                            s \in {"Alpha", NumberCell}}, MaxEvents)}
    /\ env \in {Env(HeaderKeys, ("1" :> "image"), TRUE, w, prior) :
                  w \in BOOLEAN, prior \in {NoOutput, OldOutput}}
    /\ Started
    /\ NoPdf
    /\ NoClean
    /\ NoResize

SpecRender == RenderInit /\ [][NextGen]_vars

\* An image has been opened.  Its size is a small one, or one around
\* max_width and its multiples.
ResizeInit ==
    /\ im_pc = "opened"
    /\ im_size \in [w : (1..MaxSide) \cup {999, 1000, 1001, 1500, 2000, 2001, 3000, 4001},
                     h : (1..MaxSide) \cup {999, 1000, 1001}]
    /\ im_out = NoImage
    /\ NoPdf
    /\ NoClean
    /\ NoGen

SpecResize == ResizeInit /\ [][EncodeImage]_vars

(***************************************************************************)
(* Properties of the PDF editor                                            *)
(***************************************************************************)
PageOps == {"add_text", "add_image", "add_rectangle", "add_line",
            "rotate_page", "delete_page", "extract_text"}

\* C3: every page-indexed operation called with a page index outside
\* 0..n-1 (and arguments that are otherwise fine) fails with an index error.
C3_OutOfRangeIndexFails ==
    (/\ last.op \in PageOps
     /\ last.res # "DrawError"
     /\ last.page \notin 0 .. (num_pages - 1))
    => last.res = "IndexError"

\* The original pages other than k, in their original order.
PagesExcept(k) ==
    [j \in 1 .. (num_pages - 1) |-> Page("src", IF j - 1 < k THEN j - 1 ELSE j)]

\* C4: on a freshly opened editor of n pages, delete_page(k) with 0 <= k < n
\* followed by a successful save leaves a file of exactly the n-1 original
\* pages other than k, in their original order.
C4_DeleteThenSave ==
    [][(/\ calls = 1
        /\ last.op = "delete_page"
        /\ last.page \in 0 .. (num_pages - 1)
        /\ last'.op = "save"
        /\ last'.res = "True")
       => files'[last'.path] = FileOf(PagesExcept(last.page))]_vars

\* Deleting index 1 of a 3-page document and saving: pages 0 and 2 remain.
C4_Witness ==
    /\ num_pages = 3
    /\ calls = 2
    /\ last.op = "save"
    /\ last.res = "True"
    /\ files["out.pdf"] = FileOf(<<Page("src", 0), Page("src", 2)>>)

(***************************************************************************)
(* Properties of the text cleaner                                          *)
(***************************************************************************)
Text_A_B == <<"A", ".", " ", "B", ".">>

\* C5: given the text "A. A. B." the cleaner returns "A. B.": the repeated
\* sentence is removed and the order of first occurrence is kept.
C5_ExampleDeduplicated ==
    (cl_pc \in {"cleaned", "recleaned"} /\ cl_text = Text_A_A_B)
    => cl_out = Text_A_B

\* The cleaner kept no sentence of the text and fell back to the stripped text.
FallbackTaken(text) ==
    /\ Strip(text) # <<>>
    /\ Dedupe(FullSentences(ReSplit(Strip(text), 1, 1)), 1, {}) = <<>>

\* C6: cleaning is idempotent: cleaning the cleaner's output returns that
\* output, for every input text, also when the fallback to the original
\* text was taken.
C6_Idempotent == cl_pc = "recleaned" => cl_again = cl_out

\* A text of short sentences only, cleaned twice: the fallback was taken.
C6_Witness ==
    /\ cl_pc = "recleaned"
    /\ FallbackTaken(cl_text)
    /\ Len(cl_text) > 2
    /\ cl_again = cl_out

(***************************************************************************)
(* Properties of the generation                                            *)
(***************************************************************************)
HasRun == gen_pc \in {"rendered", "done"} \/ (gen_pc = "failed" /\ html # <<>>)

\* The section an event belongs to: its Department/Section value, or the
\* fixed bucket when the value is missing or blank.
BucketOf(event) ==
    IF "Department/Section" \in DOMAIN event /\ notna(event["Department/Section"])
    THEN event["Department/Section"]
    ELSE "OTHER ACTIVITIES"

\* C1: grouping is total: the sections are exactly the buckets of the kept
\* events, and each section lists exactly the kept events of that bucket, in
\* order; no kept event is left out.
C1_GroupingTotal ==
    HasRun =>
        /\ DOMAIN sections = {BucketOf(data.events[i]) : i \in 1..Len(data.events)}
        /\ \A name \in DOMAIN sections :
              sections[name] = SelectSeq(data.events, LAMBDA e : BucketOf(e) = name)

SectionPages == SelectSeq(html, LAMBDA page : page.kind = "section")

\* The detail line of an event: its own non-blank speaker and location.
OwnDetails(event) ==
    (IF GetCell(event, "Guest Speaker") # NaN
     THEN <<Detail("Guest Speaker", event["Guest Speaker"])>> ELSE <<>>)
    \o (IF GetCell(event, "Location") # NaN
        THEN <<Detail("Location", event["Location"])>> ELSE <<>>)

\* C2: every event rendered on a section page shows the detail line built
\* from its own Guest Speaker and Location.
C2_OwnDetailLine ==
    HasRun =>
        \A p \in 1..Len(SectionPages) :
            LET page == SectionPages[p] IN
            \A j \in 1..Len(page.events) :
                page.events[j].details = OwnDetails(sections[page.name][j])

HeaderImages(k) ==
    IF k = "vision"
    THEN {html[i].vision_image : i \in {i \in 1..Len(html) : html[i].kind = "vision"}}
    ELSE {html[i].header[k] : i \in 1..Len(html)}

NoImageElement(k) == \A img \in HeaderImages(k) : img.src = "none"

CallerSupplies(k) ==
    /\ k \in DOMAIN env.image_paths
    /\ env.image_paths[k] # "missing"
    /\ env.image_paths[k] # "unreadable"
    /\ env.has_pil => env.image_paths[k] = "image"

LoadFailed == gen_pc = "failed" /\ error.stage = "Error loading Excel"

LoadSucceeded == gen_pc # "start" /\ ~LoadFailed

\* The table a sheet is loaded into.
TableOf(name) ==
    CASE name = "Newsletter Info" -> data.info
      [] name = "Editorial Board" -> data.editorial
      [] name = "Vision & Mission" -> data.vision_mission
      [] name = "Program Objectives" -> data.peo
      [] name = "Program Outcomes" -> data.pso
      [] name = "Department Events" -> data.events
      [] name = "Contact Info" -> data.contact

\* C9 as stated: with 'Editorial Board' and 'Department Events' present,
\* loading succeeds whichever other sheets are absent, 'Newsletter Info'
\* included, and the table of an absent sheet is empty.
C9_OthersOptional ==
    (/\ gen_pc # "start"
     /\ workbook.readable
     /\ {"Editorial Board", "Department Events"} \subseteq workbook.sheets)
    => /\ LoadSucceeded
       /\ \A name \in SheetNames \ workbook.sheets : TableOf(name) = <<>>

\* C9 as amended: 'Newsletter Info' is required too.  With the three
\* required sheets present, loading succeeds whichever of the other four
\* are absent, and the table of an absent sheet is empty; without
\* 'Newsletter Info' loading fails.
C9_OthersOptionalButInfo ==
    (gen_pc # "start" /\ workbook.readable)
    => /\ {"Newsletter Info", "Editorial Board", "Department Events"}
              \subseteq workbook.sheets
          => /\ LoadSucceeded
             /\ \A name \in SheetNames \ workbook.sheets : TableOf(name) = <<>>
       /\ "Newsletter Info" \notin workbook.sheets => LoadFailed

\* Loaded without the Vision & Mission and Contact Info sheets.
C9_Witness ==
    /\ gen_pc = "loaded"
    /\ workbook.sheets = {"Newsletter Info", "Editorial Board", "Department Events",
                          "Program Objectives", "Program Outcomes"}
    /\ data.vision_mission = <<>>
    /\ data.contact = <<>>
    /\ data.peo # <<>>

\* The cause a failed load reports: the file, or the first required sheet
\* that is missing.
ExpectedCause ==
    IF ~workbook.readable THEN "unreadable file"
    ELSE IF "Newsletter Info" \notin workbook.sheets THEN "Newsletter Info"
    ELSE IF "Editorial Board" \notin workbook.sheets THEN "Editorial Board"
    ELSE IF "Department Events" \notin workbook.sheets THEN "Department Events"
    ELSE ""

\* C10: when a required sheet is absent or the spreadsheet cannot be read,
\* the call fails with one load error naming the cause, nothing is rendered
\* and the output file is as it was; and nothing is rendered or written
\* before the load has succeeded.
C10_LoadFailureWritesNothing ==
    /\ (gen_pc # "start" /\ ExpectedCause # "")
       => /\ LoadFailed
          /\ error.cause = ExpectedCause
          /\ html = <<>>
          /\ out_file = env.prior
    /\ (html # <<>> \/ out_file # env.prior \/ data # EmptyData)
       => (LoadSucceeded /\ ExpectedCause = "")

\* A run on a workbook without Department Events, over an earlier output.
C10_Witness ==
    /\ LoadFailed
    /\ workbook.readable
    /\ "Department Events" \notin workbook.sheets
    /\ error.cause = "Department Events"
    /\ env.prior = OldOutput
    /\ out_file = OldOutput

(***************************************************************************)
(* Properties of the page map and the section pages                        *)
(***************************************************************************)
\* m sorts before n.
Before(m, n) ==
    \E i, j \in 1..Len(CodepointOrder) :
        i < j /\ CodepointOrder[i] = m /\ CodepointOrder[j] = n

\* The 0-based rank of a section name among the section names.
Rank(n) == Cardinality({m \in DOMAIN sections : Before(m, n)})

PageMap == SectionPageMap(sorted(DOMAIN sections))

\* C11: the page map has an entry for every section, the page of a section
\* is 4 plus its 0-based rank in the sorted section names, and so the pages
\* are unique and strictly increasing with the rank.
C11_PageMapByRank ==
    HasRun =>
        /\ DOMAIN PageMap = DOMAIN sections
        /\ \A n \in DOMAIN sections : PageMap[n] = 4 + Rank(n)
        /\ \A m, n \in DOMAIN sections :
              /\ Before(m, n) => PageMap[m] < PageMap[n]
              /\ m # n => PageMap[m] # PageMap[n]

\* Sections Alpha, Beta and Gamma get the pages 4, 5 and 6.
C11_Witness ==
    /\ HasRun
    /\ DOMAIN sections = {"Alpha", "Beta", "Gamma"}
    /\ PageMap = ("Alpha" :> 4) @@ ("Beta" :> 5) @@ ("Gamma" :> 6)

C13_CaseSensitiveSections ==
    HasRun =>
        \A i, j \in 1..Len(data.events) :
            LET a == data.events[i]["Department/Section"]
                b == data.events[j]["Department/Section"]
            IN  (notna(a) /\ notna(b) /\ a # b /\ Upper(a) = Upper(b)) =>
                  /\ {a, b} \subseteq DOMAIN sections
                  /\ \A n \in {a, b} :
                        /\ \A e \in 1..Len(sections[n]) :
                              sections[n][e]["Department/Section"] = n
                        /\ Cardinality({p \in 1..Len(SectionPages) :
                                           SectionPages[p].name = n}) = 1
                  /\ PageMap[a] # PageMap[b]

\* 'Tech Talks' and 'tech talks' are two sections, on pages 4 and 5.
C13_Witness ==
    /\ HasRun
    /\ DOMAIN sections = {"Tech Talks", "tech talks"}
    /\ Len(SectionPages) = 2
    /\ PageMap["Tech Talks"] = 4
    /\ PageMap["tech talks"] = 5

(***************************************************************************)
(* Further properties of the text cleaner                                  *)
(***************************************************************************)
HasCleaned == cl_pc \in {"cleaned", "recleaned"}

\* The sentences of a text: split, with the punctuation reattached.
SentencesOf(text) == FullSentences(ReSplit(Strip(text), 1, 1))

\* C14: an empty or whitespace-only input is returned exactly as given.
C14_BlankReturnedUnchanged ==
    (HasCleaned /\ Strip(cl_text) = <<>>) => cl_out = cl_text

\* The sentence occurs once among the sentences, compared in normalized form.
OccursOnce(sentence, all) ==
    Cardinality({k \in 1..Len(all) : Normalized(all[k]) = Normalized(sentence)}) = 1

\* C15: a sentence of the input whose normalized form has fewer than 6
\* characters and that occurs once is a sentence of the output, unchanged.
C15_ShortUniqueKept ==
    HasCleaned =>
        LET input == SentencesOf(cl_text)
            output == SentencesOf(cl_out)
        IN  \A i \in 1..Len(input) :
                (Len(Normalized(input[i])) < 6 /\ OccursOnce(input[i], input))
                => \E k \in 1..Len(output) : output[k] = input[i]

\* Where the normalized form of the sentence first occurs; 0 if nowhere.
FirstAt(sentence, all) ==
    IF \E k \in 1..Len(all) : Normalized(all[k]) = Normalized(sentence)
    THEN CHOOSE k \in 1..Len(all) :
            /\ Normalized(all[k]) = Normalized(sentence)
            /\ \A m \in 1..(k - 1) : Normalized(all[m]) # Normalized(sentence)
    ELSE 0

\* C16: the output holds no two sentences of the same normalized form, and
\* its sentences stand in the order of their first occurrence in the input.
C16_NoDuplicatesInOrder ==
    HasCleaned =>
        LET input == SentencesOf(cl_text)
            output == SentencesOf(cl_out)
        IN  \A i, j \in 1..Len(output) :
                i < j =>
                  /\ Normalized(output[i]) # Normalized(output[j])
                  /\ FirstAt(output[i], input) > 0
                  /\ FirstAt(output[i], input) < FirstAt(output[j], input)

(***************************************************************************)
(* Properties of the event blocks                                          *)
(***************************************************************************)
\* C17: for every rendered event, the date line, the description block and
\* the coordinators line are left out when the event's cell for it is blank.
C17_BlankFieldOmitted ==
    HasRun =>
        \A p \in 1..Len(SectionPages) :
            LET page == SectionPages[p] IN
            \A j \in 1..Len(page.events) :
                LET event == sections[page.name][j] IN
                /\ GetCell(event, "Event Date") = NaN => page.events[j].date = ""
                /\ GetCell(event, "Event Description") = NaN
                      => page.events[j].description = ""
                /\ GetCell(event, "Coordinators") = NaN
                      => page.events[j].coordinators = ""

\* The characters of a description of the event sheets.
Chars(text) ==
    IF text = "Held in May. Held in May."
    THEN <<"H", "e", "l", "d", " ", "i", "n", " ", "M", "a", "y", ".", " ",
         "H", "e", "l", "d", " ", "i", "n", " ", "M", "a", "y", ".">>
    ELSE IF text = "About the talk."
    THEN <<"A", "b", "o", "u", "t", " ", "t", "h", "e", " ", "t", "a", "l", "k", ".">>
    ELSE <<>>

\* C28: every event description in the rendered document is the text the
\* cleaner returns for the description loaded from the sheet, so it holds no
\* sentence twice.
C28_DescriptionsCleaned ==
    HasRun =>
        \A p \in 1..Len(SectionPages) :
            LET page == SectionPages[p] IN
            \A j \in 1..Len(page.events) :
                LET loaded == GetCell(sections[page.name][j], "Event Description") IN
                loaded # NaN =>
                    Chars(page.events[j].description)
                        = _clean_repetitive_text(Chars(loaded))

(***************************************************************************)
(* Properties of the loaded tables                                         *)
(***************************************************************************)
\* A Role that is null (an empty cell) or blank (empty or only whitespace).
NullOrBlank(role) == role \in {NaN, "", " "}

\* C18: the editorial list is exactly the Editorial Board rows whose Role
\* is neither null nor blank, in the order read, and as many rows are
\* excluded as have a null or blank Role.
C18_EditorialRowsWithRole ==
    LoadSucceeded =>
        LET rows == workbook.rows["Editorial Board"] IN
        /\ data.editorial = SelectSeq(rows, LAMBDA r : ~NullOrBlank(r["Role"]))
        /\ Len(rows) - Len(data.editorial)
              = Cardinality({i \in 1..Len(rows) : NullOrBlank(rows[i]["Role"])})

IsIn(item, list) == \E k \in 1..Len(list) : list[k] = item

\* C19: every loaded vision/mission item is in exactly one of the vision
\* list and the mission list, and each list keeps the source order.
C19_VisionMissionPartition ==
    HasRun =>
        LET vision == html[2].vision
            mission == html[2].mission
        IN  /\ \A i \in 1..Len(data.vision_mission) :
                  IsIn(data.vision_mission[i], vision)
                  # IsIn(data.vision_mission[i], mission)
            /\ Len(vision) + Len(mission) = Len(data.vision_mission)
            /\ vision = SelectSeq(data.vision_mission, LAMBDA it : IsIn(it, vision))
            /\ mission = SelectSeq(data.vision_mission, LAMBDA it : IsIn(it, mission))

(***************************************************************************)
(* Further properties of the PDF editor                                    *)
(***************************************************************************)
\* C20: add_text with a page index >= the page count fails, with an index
\* error whenever the text itself can be drawn, and has no effect: the
\* writer holds the pages it held before and no file is written or changed.
C20_AddTextOutOfRangeNoEffect ==
    [][(/\ calls' = calls + 1
        /\ last'.op = "add_text"
        /\ last'.page >= num_pages)
       => /\ last'.res # "True"
          /\ last'.res # "DrawError" => last'.res = "IndexError"
          /\ writer' = writer
          /\ files' = files]_vars

\* add_text past the last page, after the editor's pages were saved: the
\* saved file still holds what the writer held, and the writer is as it was.
C20_Witness ==
    /\ last.op = "add_text"
    /\ last.page >= num_pages
    /\ last.res = "IndexError"
    /\ writer # <<>>
    /\ files["out.pdf"] = FileOf(writer)

\* s is a prefix of t.
IsPrefix(s, t) == Len(s) <= Len(t) /\ SubSeq(t, 1, Len(s)) = s

\* C21: the writer is append-only: whatever the operation, the pages the
\* writer held before it are a prefix of the pages it holds after it; a save
\* does not empty the writer.
C21_WriterAppendOnly == [][IsPrefix(writer, writer')]_vars

\* A delete_page after a drawing call: the page drawn on is still the
\* writer's first page, followed by the pages delete_page kept.
C21_Witness ==
    /\ calls = 2
    /\ num_pages = 3
    /\ last.op = "delete_page"
    /\ last.page = 0
    /\ Len(writer) = 3
    /\ writer[1] = Page("src", 0)

\* C22: after a successful save(p) the file at p holds exactly the pages the
\* writer holds, and nothing of what the file held before.
C22_SaveReplacesFile ==
    (last.op = "save" /\ last.res = "True")
    => files[last.path] = FileOf(writer)

\* The third call is a save of a one-page writer: whatever the path held,
\* from before or from an earlier save, it now holds that one page.
C22_Witness ==
    /\ calls = 3
    /\ last.op = "save"
    /\ last.res = "True"
    /\ Len(writer) = 1
    /\ files["out.pdf"] = FileOf(writer)

\* The step is a call of one of the named operations.
IsCall(ops) == calls' = calls + 1 /\ last'.op \in ops

DrawOps == {"add_text", "add_image", "add_rectangle", "add_line", "rotate_page"}

\* The page of the source document a page number names, negative numbers
\* counting from the end.
Target(page_num) ==
    Page("src", IF page_num < 0 THEN page_num + num_pages ELSE page_num)

\* C27: every successful add_text, add_image, add_rectangle, add_line or
\* rotate_page adds exactly one page to the writer, the target page; one such
\* call on a fresh editor followed by save writes a file of one page.
C27_OnePagePerCall ==
    [][/\ (IsCall(DrawOps) /\ last'.res = "True") =>
              writer' = Append(writer, Target(last'.page))
       /\ (IsCall({"save"}) /\ last'.res = "True" /\ calls = 1
              /\ last.op \in DrawOps /\ last.res = "True") =>
              Len(files'[last'.path].pages) = 1]_vars

\* A document of three pages is opened, something is drawn on its last page
\* and the editor is saved: the file has that one page.
C27_Witness ==
    /\ num_pages = 3
    /\ calls = 2
    /\ last.op = "save"
    /\ last.res = "True"
    /\ edited = {2}
    /\ files[last.path].pages = <<Page("src", 2)>>

\* The pages of the first n of the documents, in order.
RECURSIVE PagesOfFirst(_, _)
PagesOfFirst(n, pdf_paths) ==
    IF n = 0 THEN <<>>
    ELSE PagesOfFirst(n - 1, pdf_paths)
         \o [i \in 1..DocPages(pdf_paths[n]) |-> Page(pdf_paths[n], i - 1)]

\* C29: when the k-th document of a merge_pdfs call cannot be read, the call
\* raises and the writer is what it was before the call followed by the pages
\* of the first k-1 documents.
C29_MergeNotAtomic ==
    [][IsCall({"merge_pdfs"}) =>
          \A k \in 1..Len(last'.path) :
              (/\ ~Readable(last'.path[k])
               /\ \A j \in 1..(k - 1) : Readable(last'.path[j])) =>
                  /\ last'.res = "IOError"
                  /\ writer' = writer \o PagesOfFirst(k - 1, last'.path)]_vars

\* A page was drawn on, then a readable document and an unreadable one were
\* merged: the call raised and the readable document's pages are in the
\* writer, after the page drawn on.
C29_Witness ==
    /\ calls = 2
    /\ last.op = "merge_pdfs"
    /\ last.res = "IOError"
    /\ last.path = <<"extra.pdf", "bad.pdf">>
    /\ Len(writer) = 1 + DocPages("extra.pdf")
    /\ writer[2] = Page("extra.pdf", 0)

\* C30: no operation changes the editor's page count; get_page_count
\* returns it, an operation on a page succeeds only for a page number within
\* it, and delete_page copies that many pages or one less, whatever the
\* writer holds by then.
C30_PageCountFixed ==
    [][/\ num_pages' = num_pages
       /\ IsCall({"get_page_count"}) => last'.page = num_pages
       /\ (IsCall(DrawOps \cup {"extract_text"})
              /\ last'.res \notin {"IndexError", "DrawError"}) =>
              (last'.page >= -num_pages /\ last'.page < num_pages)
       /\ IsCall({"delete_page"}) =>
              Len(writer') - Len(writer) \in {num_pages - 1, num_pages}]_vars

\* A document of one page is opened, the page is deleted, a document is
\* merged in, and get_page_count still returns 1.
C30_Witness ==
    /\ calls = 3
    /\ num_pages = 1
    /\ last.op = "get_page_count"
    /\ last.page = 1
    /\ edited = {}
    /\ writer # <<>>

(***************************************************************************)
(* Properties of the image resolver and of generate                        *)
(***************************************************************************)
\* The resolver tried the caller's file for k and the attempt failed: the
\* file exists, the key has no path, and opening or decoding the file raises.
FailsOn(k) ==
    /\ k \in DOMAIN env.image_paths
    /\ k \notin HeaderKeys \cap env.static
    /\ \/ env.image_paths[k] = "unreadable"
       \/ env.has_pil /\ env.image_paths[k] = "corrupt"

\* The payloads of a run that was not given key k.
EmbeddedWithout(k) ==
    [j \in {j \in DOMAIN env.image_paths \ {k} :
                /\ j \notin HeaderKeys \cap env.static
                /\ \/ env.image_paths[j] = "image"
                   \/ ~env.has_pil /\ env.image_paths[j] = "corrupt"}
        |-> [of |-> j, by |-> IF env.has_pil THEN "PIL" ELSE "raw"]]

\* C23: a failure to read or decode the file of one image key never leaves
\* the resolver: no run fails on an image, the failing key has no payload,
\* and paths and payloads are those of a run without the failing key.
C23_ImageFailureSwallowed ==
    /\ ~(gen_pc = "failed" /\ error.cause = "image cannot be encoded")
    /\ HasRun =>
          \A k \in ImageKeys :
              FailsOn(k) =>
                  /\ k \notin DOMAIN images.embedded
                  /\ images.embedded = EmbeddedWithout(k)
                  /\ DOMAIN images.paths = HeaderKeys \cap env.static

\* One caller file cannot be opened, another is a good image: the run is
\* rendered, with the good image alone embedded.
C23_Witness ==
    /\ HasRun
    /\ \E k \in ImageKeys :
          /\ FailsOn(k)
          /\ env.image_paths[k] = "unreadable"
          /\ \E j \in DOMAIN images.embedded : j # k /\ env.image_paths[j] = "image"

\* The run failed in generate_html, before the output was opened.
RenderFailed ==
    /\ gen_pc = "failed"
    /\ error.stage = "Error generating newsletter"
    /\ error.cause = "section name is not a str"

\* C24: a run whose rendering fails reports one error, "Error generating
\* newsletter" with the cause, and leaves the output path as it was; the
\* output is written only with a completely rendered document.
C24_NoPartialOutput ==
    /\ RenderFailed => html = <<>> /\ out_file = env.prior
    /\ out_file # env.prior => html # <<>> /\ out_file.content = html
    /\ (gen_pc = "failed" /\ html = <<>> /\ data # EmptyData) => RenderFailed

\* A section cell holds a number; a newsletter of an earlier run is on disk
\* and is still there after the failure.
C24_Witness ==
    /\ RenderFailed
    /\ env.out_writable
    /\ env.prior = OldOutput
    /\ out_file = OldOutput

\* C25: an image wider than 1000 is re-encoded with width 1000 and height
\* floor(1000 * h / w), less than one pixel from the exact height; an image
\* of width 1000 or less keeps its size.
C25_ResizedWithinOnePixel ==
    im_pc = "encoded" =>
        /\ im_out.ok
        /\ IF im_size.w > 1000
           THEN /\ im_out.w = 1000
                /\ im_out.h * im_size.w <= 1000 * im_size.h
                /\ (im_out.h + 1) * im_size.w > 1000 * im_size.h
           ELSE im_out.w = im_size.w /\ im_out.h = im_size.h

\* C26: in every result of the resolver, no key has both a path and an
\* inline payload.
C26_PathsAndPayloadsDisjoint ==
    HasRun => DOMAIN images.paths \cap DOMAIN images.embedded = {}

\* The caller names good images for a key that has a static file and for a
\* key that has none: the first has only a path, the second only a payload.
C26_Witness ==
    /\ HasRun
    /\ \E k \in DOMAIN images.paths, j \in DOMAIN images.embedded :
          /\ k \in DOMAIN env.image_paths
          /\ env.image_paths[k] = "image"
          /\ env.image_paths[j] = "image"

====
